---------------------------- MODULE Spec2Model ----------------------------
(***************************************************************************)
(* The multiplayer room coordinator of the UNO server (src/src/App.tsx,    *)
(* lines 271-715): the Room Store `rooms`, the Connection Registry         *)
(* `players`, the socket.io handlers and the periodic cleanup.             *)
(*                                                                         *)
(* Node runs every handler to completion on one thread, and no handler     *)
(* awaits anything, so each handler is one atomic action.                  *)
(*                                                                         *)
(* Spec is the server on its own, SpecJoin a burst of join-room requests,   *)
(* and SpecClient the server with the useRoomSystem hook                    *)
(* (src/src/hooks/useRoomSystem.ts, src/src/services/SocketService.ts) at   *)
(* the other end of every connection.  SpecReconnect is the SocketService   *)
(* of one client keeping its connection up.                                *)
(***************************************************************************)
EXTENDS Integers, Sequences, FiniteSets, TLC

(***************************************************************************)
(* Bounds of the model.                                                    *)
(***************************************************************************)
\* socket.io connections that ever connect; socket.id is 1..MaxSockets
MaxSockets == 2
\* room codes Math.random() can produce (a small code space, so that two
\* createRoom calls can draw the same code)
MaxRoomIds == 2
\* calls of uuidv4(): the n-th call returns n
MaxPlayerIds == 4
\* advances of the wall clock
MaxTicks == 1
\* connections that send join-room at the same time (SpecJoin)
MaxJoiners == 3
\* changes made to the store while clients are watching (SpecClient)
MaxCommits == 4
\* setTimeout callbacks of one client waiting at the same time (SpecReconnect)
MaxTimers == 3

Sockets == 1..MaxSockets
RoomIds == 1..MaxRoomIds
PlayerIds == 1..MaxPlayerIds

\* the name the user of a connection types as hostName / playerName
NameOf(s) == IF s % 2 = 1 THEN "ann" ELSE "bob"
\* `undefined`: the password field is missing from the request
NoPassword == "<undefined>"
\* the create-room forms the clients send: data.maxPlayers, data.password
RoomConfigs == {[maxPlayers |-> 2, password |-> NoPassword],
                [maxPlayers |-> 3, password |-> "pw"]}
\* data.password of join-room
JoinPasswords == {NoPassword, "pw", "bad"}

\* null (newHostId: null)
NoId == 0
\* gameState: null
NoGameState == [phase |-> "null"]
\* room.gameState = { currentPlayerIndex: 0, direction: 'clockwise', phase: 'playing' }
InitialGameState == [phase |-> "playing"]

\* the error strings of the replies (without their diacritics)
RoomNotFound == "Phong khong ton tai"
RoomFull == "Phong da day"
WrongPassword == "Mat khau khong dung"
GameAlreadyInProgress == "Game dang dien ra"
Mismatch == "Thong tin nguoi choi hoac phong khong khop"
HostCannotToggle == "Chu phong khong can san sang"
NotAuthorized == "Ban khong phai chu phong hoac phong khong ton tai"
NotEnoughPlayers == "Can it nhat 2 nguoi choi de bat dau game"
NotAllReady == "Chua tat ca nguoi choi san sang"
KickMismatch == "Thong tin nguoi choi hoac phong khong khop."
KickNotAuthorized == "Ban khong phai chu phong hoac phong khong ton tai."
CannotKick == "Khong the kick chu phong hoac nguoi choi khong ton tai."

\* const maxInactiveTime = 30 * 60 * 1000; // 30 minutes
maxInactiveTime == 30 * 60 * 1000
\* the clock is read at a granularity just above the idle threshold: one
\* advance takes a room from new to inactive
TickMs == maxInactiveTime + 1

VARIABLES
    rooms,        \* const rooms = new Map(): roomId -> room
    players,      \* const players = new Map(): socketId -> {playerId, roomId}
    connected,    \* io.sockets.sockets: the sockets connected now
    closed,       \* the sockets that have disconnected (an id is never reused)
    joined,       \* socket.io adapter: socketId -> the broadcast groups it is in
    nextPlayerId, \* the value the next uuidv4() returns
    now,          \* the wall clock, in milliseconds since the server started
    last,         \* the last handler that changed the state, and its result
    burst,        \* join-room requests sent at the same time, and their replies
    hook,         \* useRoomSystem: socketId -> the state of the hook of its client
    wire,         \* socketId -> the packets on their way from the server to it
    commits,      \* the number of changes made to rooms of the store so far
    seen,         \* socketId -> the change the last packet it took in came from
    service,      \* the fields of the SocketService of one client
    timers,       \* the delays of its setTimeout callbacks that have not run yet
    lastEvent     \* the last thing that happened to it, and what it emitted

\* the state of the clients and of the connections between them and the server
clientVars == <<hook, wire, commits, seen>>

\* the connection of one client as its SocketService sees it
linkVars == <<service, timers, lastEvent>>

\* what the server on its own leaves alone
aux == <<burst, hook, wire, commits, seen, service, timers, lastEvent>>

vars == <<rooms, players, connected, closed, joined, nextPlayerId, now, last,
          burst, hook, wire, commits, seen, service, timers, lastEvent>>

(***************************************************************************)
(* Map and array helpers.                                                  *)
(***************************************************************************)
\* Map.has
Has(m, k) == k \in DOMAIN m

\* Map.set
MapSet(m, k, v) == [x \in DOMAIN m \cup {k} |-> IF x = k THEN v ELSE m[x]]

\* Map.delete
MapDelete(m, k) == [x \in DOMAIN m \ {k} |-> m[x]]

EmptyMap == [x \in {} |-> 0]

\* room.players.filter(p => p.socketId !== socketId)
WithoutSocket(seq, socketId) == SelectSeq(seq, LAMBDA p : p.socketId # socketId)

\* room.players.filter(p => p.id !== targetPlayerId)
WithoutPlayer(seq, playerId) == SelectSeq(seq, LAMBDA p : p.id # playerId)

\* room.players.find(p => p.id === playerId): the indexes of the matches (ids
\* are unique, so there is at most one)
FindById(seq, playerId) == {i \in 1..Len(seq) : seq[i].id = playerId}

\* !!data.password
Truthy(password) == password \notin {NoPassword, ""}

(***************************************************************************)
(* Room management functions.  Each returns the maps as they are after     *)
(* the call, and the value the function returns.                           *)
(***************************************************************************)
\* function createRoom(data)
createRoom(rms, pls, data, roomId, playerId, date) ==
    LET hostPlayer == [id |-> playerId,
                       name |-> data.hostName,
                       socketId |-> data.socketId,
                       isHost |-> TRUE,
                       isReady |-> TRUE]
        room == [id |-> roomId,
                 hostId |-> playerId,
                 hostName |-> data.hostName,
                 maxPlayers |-> data.maxPlayers,
                 currentPlayers |-> 1,
                 hasPassword |-> Truthy(data.password),
                 password |-> data.password,
                 players |-> <<hostPlayer>>,
                 status |-> "waiting",
                 createdAt |-> date,
                 gameInProgress |-> FALSE,
                 gameState |-> NoGameState]
    IN  [rooms |-> MapSet(rms, roomId, room),
         players |-> MapSet(pls, data.socketId,
                            [playerId |-> playerId, roomId |-> roomId]),
         room |-> room,
         playerId |-> playerId]

\* joinRoom without `if (room.hasPassword && room.password !== data.password)`
joinRoomErrorNoPassword(room, data) ==
    IF room.currentPlayers >= room.maxPlayers THEN RoomFull
    ELSE IF room.gameInProgress THEN GameAlreadyInProgress
    ELSE ""

\* joinRoom with `>` for `>=` in the capacity check
joinRoomErrorOffByOne(room, data) ==
    IF room.currentPlayers > room.maxPlayers THEN RoomFull
    ELSE IF room.hasPassword /\ room.password # data.password THEN WrongPassword
    ELSE IF room.gameInProgress THEN GameAlreadyInProgress
    ELSE ""

\* joinRoom without `if (room.gameInProgress)`
joinRoomErrorNoProgress(room, data) ==
    IF room.currentPlayers >= room.maxPlayers THEN RoomFull
    ELSE IF room.hasPassword /\ room.password # data.password THEN WrongPassword
    ELSE ""

\* function joinRoom(data): the checks on the room it found, "" when all pass
joinRoomError(room, data) ==
    IF room.currentPlayers >= room.maxPlayers THEN RoomFull
    ELSE IF room.hasPassword /\ room.password # data.password THEN WrongPassword
    ELSE IF room.gameInProgress THEN GameAlreadyInProgress
    ELSE ""

\* joinRoom without `room.currentPlayers++`
pushPlayerNoCount(room, newPlayer) ==
    [room EXCEPT !.players = Append(@, newPlayer)]

\* room.players.push(newPlayer); room.currentPlayers++;
pushPlayer(room, newPlayer) ==
    [room EXCEPT !.players = Append(@, newPlayer),
                 !.currentPlayers = @ + 1]

\* function joinRoom(data)
joinRoom(rms, pls, data, playerId) ==
    IF ~Has(rms, data.roomId)
    THEN [success |-> FALSE, error |-> RoomNotFound, rooms |-> rms, players |-> pls]
    ELSE LET room == rms[data.roomId]
             error == joinRoomError(room, data)
             newPlayer == [id |-> playerId,
                           name |-> data.playerName,
                           socketId |-> data.socketId,
                           isHost |-> FALSE,
                           isReady |-> FALSE]
         IN  IF error # ""
             THEN [success |-> FALSE, error |-> error, rooms |-> rms, players |-> pls]
             ELSE [success |-> TRUE, error |-> "",
                   rooms |-> MapSet(rms, data.roomId, pushPlayer(room, newPlayer)),
                   players |-> MapSet(pls, data.socketId,
                                      [playerId |-> playerId,
                                       roomId |-> data.roomId])]

\* function leaveRoom(socketId)
leaveRoom(rms, pls, socketId) ==
    IF ~Has(pls, socketId)
    THEN [kind |-> "false", rooms |-> rms, players |-> pls, newHostId |-> NoId]
    ELSE LET playerInfo == pls[socketId] IN
    IF ~Has(rms, playerInfo.roomId)
    THEN [kind |-> "false", rooms |-> rms, players |-> pls, newHostId |-> NoId]
    ELSE LET room == rms[playerInfo.roomId]
             remaining == WithoutSocket(room.players, socketId)
             left == [room EXCEPT !.players = remaining,
                                  !.currentPlayers = @ - 1]
             pls2 == MapDelete(pls, socketId)
         IN
    IF Len(remaining) = 0
    THEN [kind |-> "roomDeleted",
          rooms |-> MapDelete(rms, playerInfo.roomId),
          players |-> pls2, newHostId |-> NoId]
    ELSE IF room.hostId = playerInfo.playerId
    THEN LET newHost == remaining[1]
             promoted == [left EXCEPT
                            !.hostId = newHost.id,
                            !.hostName = newHost.name,
                            !.players[1].isHost = TRUE]
         IN  [kind |-> "room",
              rooms |-> MapSet(rms, playerInfo.roomId, promoted),
              players |-> pls2, newHostId |-> newHost.id]
    ELSE [kind |-> "room",
          rooms |-> MapSet(rms, playerInfo.roomId, left),
          players |-> pls2, newHostId |-> NoId]

\* function getActiveRooms(): the ids of the rooms it returns
ActiveRoomIds(rms) ==
    {r \in DOMAIN rms : rms[r].status = "waiting" /\ ~rms[r].gameInProgress}

\* toggle-ready: player.isReady = !player.isReady
toggled(room, playerId) ==
    LET i == CHOOSE i \in 1..Len(room.players) : room.players[i].id = playerId
    IN  [room EXCEPT !.players[i].isReady = ~@]

\* start-game: room.status = 'playing'; room.gameInProgress = true;
\* room.gameState = { ... }
started(room) ==
    [room EXCEPT !.status = "playing",
                 !.gameInProgress = TRUE,
                 !.gameState = InitialGameState]

\* kick-player without `room.currentPlayers--`
kickedNoCount(room, targetPlayerId) ==
    [room EXCEPT !.players = WithoutPlayer(@, targetPlayerId)]

\* kick-player: room.players = room.players.filter(...); room.currentPlayers--
kicked(room, targetPlayerId) ==
    [room EXCEPT !.players = WithoutPlayer(@, targetPlayerId),
                 !.currentPlayers = @ - 1]

\* getActiveRooms without the `const { password, ...publicRoom } = room`
PublicRoomRaw(room) == room

\* getActiveRooms: players.map(p => ({ id, name, isHost, isReady, joinedAt }))
PublicPlayer(p) ==
    [id |-> p.id, name |-> p.name, isHost |-> p.isHost, isReady |-> p.isReady]

\* getActiveRooms: const { password, ...publicRoom } = room; return
\* { ...publicRoom, players: publicRoom.players.map(...) }
PublicRoom(room) ==
    [f \in DOMAIN room \ {"password"} |->
        IF f = "players"
        THEN [i \in 1..Len(room.players) |-> PublicPlayer(room.players[i])]
        ELSE room[f]]

\* function getActiveRooms(): the views it returns
getActiveRooms(rms) == {PublicRoom(rms[r]) : r \in ActiveRoomIds(rms)}

(***************************************************************************)
(* What a handler answers, as a function of the state it runs in.  A       *)
(* request that is rejected changes nothing on the server: its whole       *)
(* effect is this reply.                                                   *)
(***************************************************************************)
\* join-room: the `result` of joinRoom({ ...data, socketId: socket.id })
JoinResult(s, roomId, password) ==
    joinRoom(rooms, players,
             [roomId |-> roomId, playerName |-> NameOf(s),
              password |-> password, socketId |-> s],
             nextPlayerId)

\* join-room: callback(result), "ok" or result.error
JoinReply(s, roomId, password) ==
    LET result == JoinResult(s, roomId, password)
    IN  IF result.success THEN "ok" ELSE result.error

\* toggle-ready: the checks before player.isReady is flipped
ToggleReadyReply(s, roomId) ==
    IF ~Has(players, s) \/ players[s].roomId # roomId THEN Mismatch
    ELSE IF ~Has(rooms, players[s].roomId) THEN RoomNotFound
    ELSE LET room == rooms[players[s].roomId]
             found == FindById(room.players, players[s].playerId)
         IN  IF found = {} \/ \E i \in found : room.players[i].isHost
             THEN HostCannotToggle
             ELSE "ok"

\* start-game without the `allReady` check
StartGameReplyNoReady(s, roomId) ==
    IF ~Has(players, s) \/ players[s].roomId # roomId THEN Mismatch
    ELSE IF \/ ~Has(rooms, players[s].roomId)
            \/ rooms[players[s].roomId].hostId # players[s].playerId
    THEN NotAuthorized
    ELSE IF Len(rooms[players[s].roomId].players) < 2 THEN NotEnoughPlayers
    ELSE "ok"

\* start-game: the checks before room.status = 'playing'
StartGameReply(s, roomId) ==
    IF ~Has(players, s) \/ players[s].roomId # roomId THEN Mismatch
    ELSE IF \/ ~Has(rooms, players[s].roomId)
            \/ rooms[players[s].roomId].hostId # players[s].playerId
    THEN NotAuthorized
    ELSE LET room == rooms[players[s].roomId] IN
         IF Len(room.players) < 2 THEN NotEnoughPlayers
         ELSE IF \E i \in 1..Len(room.players) :
                    ~room.players[i].isHost /\ ~room.players[i].isReady
         THEN NotAllReady
         ELSE "ok"

\* kick-player with `if (!targetPlayer)` for `if (!targetPlayer ||
\* targetPlayer.isHost)`
KickPlayerReplyNoHostCheck(s, roomId, targetPlayerId) ==
    IF ~Has(players, s) \/ players[s].roomId # roomId THEN KickMismatch
    ELSE IF \/ ~Has(rooms, players[s].roomId)
            \/ rooms[players[s].roomId].hostId # players[s].playerId
    THEN KickNotAuthorized
    ELSE IF FindById(rooms[players[s].roomId].players, targetPlayerId) = {}
    THEN CannotKick
    ELSE "ok"

\* kick-player: the checks before the target is removed
KickPlayerReply(s, roomId, targetPlayerId) ==
    IF ~Has(players, s) \/ players[s].roomId # roomId THEN KickMismatch
    ELSE IF \/ ~Has(rooms, players[s].roomId)
            \/ rooms[players[s].roomId].hostId # players[s].playerId
    THEN KickNotAuthorized
    ELSE LET room == rooms[players[s].roomId]
             found == FindById(room.players, targetPlayerId)
         IN  IF found = {} \/ \E i \in found : room.players[i].isHost
             THEN CannotKick
             ELSE "ok"

(***************************************************************************)
(* The state after construction: no room, no connection.                   *)
(***************************************************************************)
NoLast == [op |-> "none", res |-> "", newHostId |-> NoId]

NoBurst == [room |-> 0, free |-> 0, sent |-> {}, reply |-> EmptyMap]

\* currentRoom: undefined
NoRoom == [id |-> NoId]

\* useState<RoomSystemState>({ currentRoom: undefined, ... })
NoHook == [currentRoom |-> NoRoom, currentPlayerId |-> NoId, isHost |-> FALSE]

\* new SocketService(): the fields as declared, and connect() has called io()
NewService ==
    [socket |-> "connecting", isConnected |-> FALSE, reconnectAttempts |-> 0]

NoEvent == [event |-> "none", reason |-> "", global |-> << >>]

\* no client has done anything yet
NoClients ==
    /\ hook = [s \in Sockets |-> NoHook]
    /\ wire = [s \in Sockets |-> << >>]
    /\ commits = 0
    /\ seen = [s \in Sockets |-> 0]
    /\ service = NewService
    /\ timers = << >>
    /\ lastEvent = NoEvent

Init ==
    /\ rooms = EmptyMap
    /\ players = EmptyMap
    /\ connected = {}
    /\ closed = {}
    /\ joined = [s \in Sockets |-> {}]
    /\ nextPlayerId = 1
    /\ now = 0
    /\ last = NoLast
    /\ burst = NoBurst
    /\ NoClients

(***************************************************************************)
(* The handlers.  None of them reads or writes the burst or the state of   *)
(* the clients.                                                            *)
(***************************************************************************)
\* io.on('connection', ...): the next socket id is handed out
ConnectHandler ==
    /\ \E s \in Sockets :
         /\ s \notin connected \cup closed
         /\ \A t \in Sockets : t < s => t \in connected \cup closed
         /\ connected' = connected \cup {s}
    /\ UNCHANGED <<rooms, players, closed, joined, nextPlayerId, now, last>>

\* socket.on('create-room', ...)
CreateRoomHandler(s, roomId, config) ==
    /\ s \in connected
    /\ nextPlayerId <= MaxPlayerIds
    /\ LET r == createRoom(rooms, players,
                           [hostName |-> NameOf(s),
                            maxPlayers |-> config.maxPlayers,
                            password |-> config.password, socketId |-> s],
                           roomId, nextPlayerId, now)
       IN  /\ rooms' = r.rooms
           /\ players' = r.players
           /\ joined' = [joined EXCEPT ![s] = @ \cup {roomId}]
           /\ nextPlayerId' = nextPlayerId + 1
           /\ last' = [NoLast EXCEPT !.op = "create-room", !.res = "ok"]
    /\ UNCHANGED <<connected, closed, now>>

\* socket.on('join-room', ...)
JoinRoomHandler(s, roomId, password) ==
    /\ s \in connected
    /\ LET result == JoinResult(s, roomId, password) IN
       IF result.success
       THEN /\ nextPlayerId <= MaxPlayerIds
            /\ rooms' = result.rooms
            /\ players' = result.players
            /\ joined' = [joined EXCEPT ![s] = @ \cup {roomId}]
            /\ nextPlayerId' = nextPlayerId + 1
            /\ last' = [NoLast EXCEPT !.op = "join-room", !.res = "ok"]
       ELSE UNCHANGED <<rooms, players, joined, nextPlayerId, last>>
    /\ UNCHANGED <<connected, closed, now>>


\* socket.on('leave-room', ...)
LeaveRoomHandler(s) ==
    /\ s \in connected
    /\ IF ~Has(players, s)
       THEN UNCHANGED <<rooms, players, joined, last>>
       ELSE IF ~Has(rooms, players[s].roomId)
       THEN /\ players' = MapDelete(players, s)
            /\ last' = [NoLast EXCEPT !.op = "leave-room", !.res = "no room"]
            /\ UNCHANGED <<rooms, joined>>
       ELSE LET roomId == players[s].roomId
                result == leaveRoom(rooms, players, s)
            IN  /\ rooms' = result.rooms
                /\ players' = result.players
                /\ joined' = [joined EXCEPT ![s] = @ \ {roomId}]
                /\ last' = [NoLast EXCEPT !.op = "leave-room",
                                          !.res = result.kind,
                                          !.newHostId = result.newHostId]
    /\ UNCHANGED <<connected, closed, nextPlayerId, now>>

\* a toggle-ready handler that flips isReady before it looks at isHost
ToggleReadyFlipFirst(s, roomId) ==
    /\ s \in connected
    /\ IF ToggleReadyReply(s, roomId) \in {Mismatch, RoomNotFound}
       THEN UNCHANGED <<rooms, last>>
       ELSE /\ rooms' = [rooms EXCEPT ![roomId] = toggled(@, players[s].playerId)]
            /\ last' = IF ToggleReadyReply(s, roomId) = "ok"
                       THEN [NoLast EXCEPT !.op = "toggle-ready", !.res = "ok"]
                       ELSE last
    /\ UNCHANGED <<players, connected, closed, joined, nextPlayerId, now>>

\* socket.on('toggle-ready', ...)
ToggleReadyHandler(s, roomId) ==
    /\ s \in connected
    /\ IF ToggleReadyReply(s, roomId) # "ok"
       THEN UNCHANGED <<rooms, last>>
       ELSE /\ rooms' = [rooms EXCEPT ![roomId] = toggled(@, players[s].playerId)]
            /\ last' = [NoLast EXCEPT !.op = "toggle-ready", !.res = "ok"]
    /\ UNCHANGED <<players, connected, closed, joined, nextPlayerId, now>>

\* socket.on('start-game', ...)
StartGameHandler(s, roomId) ==
    /\ s \in connected
    /\ IF StartGameReply(s, roomId) # "ok"
       THEN UNCHANGED <<rooms, last>>
       ELSE /\ rooms' = [rooms EXCEPT ![roomId] = started(@)]
            /\ last' = [NoLast EXCEPT !.op = "start-game", !.res = "ok"]
    /\ UNCHANGED <<players, connected, closed, joined, nextPlayerId, now>>

\* socket.on('kick-player', ...)
KickPlayerHandler(s, roomId, targetPlayerId) ==
    /\ s \in connected
    /\ IF KickPlayerReply(s, roomId, targetPlayerId) # "ok"
       THEN UNCHANGED <<rooms, players, joined, last>>
       ELSE LET room == rooms[roomId]
                i == CHOOSE i \in 1..Len(room.players) :
                        room.players[i].id = targetPlayerId
                targetSocketId == room.players[i].socketId
            IN  /\ rooms' = [rooms EXCEPT ![roomId] = kicked(@, targetPlayerId)]
                /\ players' = MapDelete(players, targetSocketId)
                /\ joined' = IF targetSocketId \in connected
                             THEN [joined EXCEPT ![targetSocketId] = @ \ {roomId}]
                             ELSE joined
                /\ last' = [NoLast EXCEPT !.op = "kick-player", !.res = "ok"]
    /\ UNCHANGED <<connected, closed, nextPlayerId, now>>

\* a disconnect handler that does not stop at `if (!playerInfo)` but takes the
\* players of the socket out of every room
DisconnectSweep(s) ==
    /\ s \in connected
    /\ connected' = connected \ {s}
    /\ closed' = closed \cup {s}
    /\ joined' = [joined EXCEPT ![s] = {}]
    /\ rooms' = [r \in DOMAIN rooms |->
                    [rooms[r] EXCEPT !.players = WithoutSocket(@, s)]]
    /\ players' = MapDelete(players, s)
    /\ last' = [NoLast EXCEPT !.op = "disconnect", !.res = "unbound"]
    /\ UNCHANGED <<nextPlayerId, now>>

\* socket.on('disconnect', ...): socket.io has taken the socket out of
\* io.sockets.sockets and out of every broadcast group before the handler runs
DisconnectHandler(s) ==
    /\ s \in connected
    /\ connected' = connected \ {s}
    /\ closed' = closed \cup {s}
    /\ joined' = [joined EXCEPT ![s] = {}]
    /\ IF ~Has(players, s)
       THEN /\ last' = [NoLast EXCEPT !.op = "disconnect", !.res = "unbound"]
            /\ UNCHANGED <<rooms, players>>
       ELSE LET result == leaveRoom(rooms, players, s)
            IN  /\ rooms' = result.rooms
                /\ players' = result.players
                /\ last' = [NoLast EXCEPT !.op = "disconnect",
                                          !.res = result.kind,
                                          !.newHostId = result.newHostId]
    /\ UNCHANGED <<nextPlayerId, now>>

\* the test of the cleanup loop: is this room deleted?
Inactive(room, date) ==
    /\ date - room.createdAt > maxInactiveTime
    /\ room.status = "waiting"
    /\ ~room.gameInProgress

\* setInterval(() => { ... }, 5 * 60 * 1000): one run of the cleanup
CleanupHandler ==
    LET reaped == {r \in DOMAIN rooms : Inactive(rooms[r], now)}
        unbound == UNION {{rooms[r].players[i].socketId :
                              i \in 1..Len(rooms[r].players)} : r \in reaped}
    IN  /\ reaped # {}
        /\ rooms' = [r \in DOMAIN rooms \ reaped |-> rooms[r]]
        /\ players' = [s \in DOMAIN players \ unbound |-> players[s]]
        /\ last' = [NoLast EXCEPT !.op = "cleanup", !.res = "reaped"]
        /\ UNCHANGED <<connected, closed, joined, nextPlayerId, now>>

\* time passes
TickHandler ==
    /\ now < MaxTicks * TickMs
    /\ now' = now + TickMs
    /\ UNCHANGED <<rooms, players, connected, closed, joined, nextPlayerId, last>>

(***************************************************************************)
(* The server on its own: a request of any kind may arrive from any         *)
(* connection at any time, whatever the program at the other end is.  The   *)
(* burst and the clients further down are not there.                        *)
(***************************************************************************)
Connect == ConnectHandler /\ UNCHANGED aux

CreateRoom(s, roomId, config) ==
    CreateRoomHandler(s, roomId, config) /\ UNCHANGED aux

JoinRoom(s, roomId, password) ==
    JoinRoomHandler(s, roomId, password) /\ UNCHANGED aux

LeaveRoom(s) == LeaveRoomHandler(s) /\ UNCHANGED aux

ToggleReady(s, roomId) == ToggleReadyHandler(s, roomId) /\ UNCHANGED aux

StartGame(s, roomId) == StartGameHandler(s, roomId) /\ UNCHANGED aux

KickPlayer(s, roomId, targetPlayerId) ==
    KickPlayerHandler(s, roomId, targetPlayerId) /\ UNCHANGED aux

Disconnect(s) == DisconnectHandler(s) /\ UNCHANGED aux

Cleanup == CleanupHandler /\ UNCHANGED aux

Tick == TickHandler /\ UNCHANGED aux

(***************************************************************************)
(* What a handler emits, in the order of its emit calls, as a function of   *)
(* the state it runs in.  An event is delivered to the connections in `to`. *)
(***************************************************************************)
\* io.to(roomId): the connected sockets in the broadcast group of the room
Group(conn, jnd, roomId) == {s \in conn : roomId \in jnd[s]}

\* io.to(roomId).emit('current-room', { type, room }): the room object itself
RoomEvent(type, to, room) == [type |-> type, to |-> to, room |-> room]

\* io.emit('rooms-updated', getActiveRooms())
RoomsUpdated(conn, rms) ==
    [type |-> "rooms-updated", to |-> conn, rooms |-> getActiveRooms(rms)]

\* create-room
CreateRoomEvents(s, roomId, config) ==
    LET r == createRoom(rooms, players,
                        [hostName |-> NameOf(s),
                         maxPlayers |-> config.maxPlayers,
                         password |-> config.password, socketId |-> s],
                        roomId, nextPlayerId, now)
    IN  <<RoomsUpdated(connected, r.rooms)>>

\* join-room: socket.join(data.roomId) comes before the emit
JoinRoomEvents(s, roomId, password) ==
    LET result == JoinResult(s, roomId, password) IN
    IF ~result.success THEN << >>
    ELSE <<RoomEvent("ROOM_UPDATED",
                     Group(connected, joined, roomId) \cup {s},
                     result.rooms[roomId]),
           RoomsUpdated(connected, result.rooms)>>

\* the PLAYER_LEFT event of leave-room and disconnect
PlayerLeft(to, room, playerId, newHostId) ==
    [type |-> "PLAYER_LEFT", to |-> to, room |-> room,
     leavingPlayerId |-> playerId, newHostId |-> newHostId]

\* leave-room: socket.leave(roomId) comes after the emit
LeaveRoomEvents(s) ==
    IF ~Has(players, s) \/ ~Has(rooms, players[s].roomId) THEN << >>
    ELSE LET roomId == players[s].roomId
             result == leaveRoom(rooms, players, s)
         IN  IF result.kind = "room"
             THEN <<PlayerLeft(Group(connected, joined, roomId),
                               result.rooms[roomId], players[s].playerId,
                               result.newHostId),
                    RoomsUpdated(connected, result.rooms)>>
             ELSE <<RoomsUpdated(connected, result.rooms)>>

\* toggle-ready
ToggleReadyEvents(s, roomId) ==
    IF ToggleReadyReply(s, roomId) # "ok" THEN << >>
    ELSE <<RoomEvent("ROOM_UPDATED", Group(connected, joined, roomId),
                     toggled(rooms[roomId], players[s].playerId))>>

\* start-game
StartGameEvents(s, roomId) ==
    IF StartGameReply(s, roomId) # "ok" THEN << >>
    ELSE <<RoomEvent("GAME_STARTED", Group(connected, joined, roomId),
                     started(rooms[roomId])),
           RoomsUpdated(connected,
                        [rooms EXCEPT ![roomId] = started(@)])>>

\* kick-player: the target is told and taken out of the group, then
\* socket.to(roomId) reaches the rest of the group but the requester
KickPlayerEvents(s, roomId, targetPlayerId) ==
    IF KickPlayerReply(s, roomId, targetPlayerId) # "ok" THEN << >>
    ELSE LET room == rooms[roomId]
             i == CHOOSE i \in 1..Len(room.players) :
                     room.players[i].id = targetPlayerId
             targetSocketId == room.players[i].socketId
             after == kicked(room, targetPlayerId)
             told == IF targetSocketId \in connected
                     THEN <<[type |-> "KICKED_FROM_ROOM",
                             to |-> {targetSocketId}]>>
                     ELSE << >>
         IN  told \o
             <<[type |-> "PLAYER_KICKED",
                to |-> Group(connected, joined, roomId) \ {targetSocketId, s},
                room |-> after, kickedPlayerId |-> targetPlayerId],
               RoomsUpdated(connected, [rooms EXCEPT ![roomId] = after])>>

\* disconnect: the socket is out of io.sockets.sockets and of every group
DisconnectEvents(s) ==
    IF ~Has(players, s) THEN << >>
    ELSE LET roomId == players[s].roomId
             result == leaveRoom(rooms, players, s)
             others == connected \ {s}
         IN  IF result.kind = "room"
             THEN <<PlayerLeft(Group(others, joined, roomId),
                               result.rooms[roomId], players[s].playerId,
                               result.newHostId),
                    RoomsUpdated(others, result.rooms)>>
             ELSE <<RoomsUpdated(others, result.rooms)>>

\* the cleanup loop over the rooms it deletes, `rms` being the store so far: for
\* each one ROOM_DELETED to its group, then rooms.delete, then rooms-updated.
\* (Map order is insertion order, which the model does not keep: the rooms are
\* taken by id.)
RECURSIVE CleanupFrom(_, _)
CleanupFrom(rms, todo) ==
    IF todo = {} THEN << >>
    ELSE LET r == CHOOSE x \in todo : \A y \in todo : x <= y
             rest == MapDelete(rms, r)
         IN  (IF Len(rms[r].players) > 0
              THEN <<[type |-> "ROOM_DELETED",
                      to |-> Group(connected, joined, r), roomId |-> r]>>
              ELSE << >>)
             \o <<RoomsUpdated(connected, rest)>>
             \o CleanupFrom(rest, todo \ {r})

\* setInterval: the emits of one run of the cleanup
CleanupEvents ==
    CleanupFrom(rooms, {r \in DOMAIN rooms : Inactive(rooms[r], now)})

\* the elements of an array
Range(seq) == {seq[i] : i \in 1..Len(seq)}

\* every event that some handler, run in this state, emits
Emitted ==
    UNION ( {Range(CleanupEvents)}
            \cup {Range(LeaveRoomEvents(s)) : s \in connected}
            \cup {Range(DisconnectEvents(s)) : s \in connected}
            \cup {Range(CreateRoomEvents(s, r, c)) :
                     s \in connected, r \in RoomIds, c \in RoomConfigs}
            \cup {Range(JoinRoomEvents(s, r, pw)) :
                     s \in connected, r \in RoomIds, pw \in JoinPasswords}
            \cup {Range(ToggleReadyEvents(s, r)) :
                     s \in connected, r \in RoomIds}
            \cup {Range(StartGameEvents(s, r)) :
                     s \in connected, r \in RoomIds}
            \cup {Range(KickPlayerEvents(s, r, p)) :
                     s \in connected, r \in RoomIds, p \in PlayerIds} )

Next ==
    \/ Connect
    \/ \E s \in Sockets, r \in RoomIds, c \in RoomConfigs : CreateRoom(s, r, c)
    \/ \E s \in Sockets, r \in RoomIds, pw \in JoinPasswords : JoinRoom(s, r, pw)
    \/ \E s \in Sockets : LeaveRoom(s)
    \/ \E s \in Sockets, r \in RoomIds : ToggleReady(s, r)
    \/ \E s \in Sockets, r \in RoomIds : StartGame(s, r)
    \/ \E s \in Sockets, r \in RoomIds, p \in PlayerIds : KickPlayer(s, r, p)
    \/ \E s \in Sockets : Disconnect(s)
    \/ Cleanup
    \/ Tick

Spec == Init /\ [][Next]_vars

(***************************************************************************)
(* A burst of join-room requests.  Connection 1 has created room 1 and is   *)
(* its only player; some connections send join-room for it, with its        *)
(* password, at the same time, and the event loop runs their handlers in    *)
(* any order.                                                               *)
(***************************************************************************)
BurstSockets == 1..MaxJoiners

BurstConfigs ==
    {[maxPlayers |-> m, password |-> pw] :
        m \in 2..MaxPlayerIds, pw \in {NoPassword, "pw"}}

InitJoin ==
    \E config \in BurstConfigs, senders \in SUBSET BurstSockets :
        LET r == createRoom(EmptyMap, EmptyMap,
                            [hostName |-> NameOf(1),
                             maxPlayers |-> config.maxPlayers,
                             password |-> config.password, socketId |-> 1],
                            1, 1, 0)
        IN  /\ rooms = r.rooms
            /\ players = r.players
            /\ connected = BurstSockets
            /\ closed = {}
            /\ joined = [s \in BurstSockets |-> IF s = 1 THEN {1} ELSE {}]
            /\ nextPlayerId = 2
            /\ now = 0
            /\ last = [NoLast EXCEPT !.op = "create-room", !.res = "ok"]
            /\ burst = [room |-> 1,
                        free |-> r.room.maxPlayers - r.room.currentPlayers,
                        sent |-> senders,
                        reply |-> EmptyMap]
            /\ NoClients

\* the handler of one request of the burst runs, and its reply is recorded
JoinBurst(s) ==
    /\ s \in burst.sent
    /\ LET password == rooms[burst.room].password IN
       /\ JoinRoomHandler(s, burst.room, password)
       /\ burst' = [burst EXCEPT
                      !.sent = @ \ {s},
                      !.reply = MapSet(@, s, JoinReply(s, burst.room, password))]
    /\ UNCHANGED <<clientVars, linkVars>>

NextJoin == \E s \in BurstSockets : JoinBurst(s)

SpecJoin == InitJoin /\ [][NextJoin]_vars

(***************************************************************************)
(* The server with its clients.  Every connection has the useRoomSystem     *)
(* hook at the other end.  What the server emits on 'current-room' and what *)
(* it passes to the callback of create-room and join-room travels to the    *)
(* client in the order of the calls (one socket is one ordered stream) and  *)
(* is taken in by the hook one packet at a time, any time later.            *)
(*                                                                         *)
(* A call of the hook and the handler that serves it are one step.  The     *)
(* handler reads nothing of the hook, and the hook reads nothing of the     *)
(* server but its packets, so the handler of a request commutes with every  *)
(* packet its sender takes in meanwhile, and the sending commutes with      *)
(* every handler that runs meanwhile: each run with requests on their way   *)
(* shows every client and the server the same as a run of these steps.      *)
(*                                                                         *)
(* The list of active rooms ('rooms-updated'), the `loading` and `error`    *)
(* fields of the hook and the callbacks that only set `error` are left out. *)
(***************************************************************************)
serverVars ==
    <<rooms, players, connected, closed, joined, nextPlayerId, now, last>>

\* a 'current-room' event on its way to one connection, marked with the
\* number of the change it was emitted for
EventPacket(e, n) ==
    [kind |-> "event", commit |-> n,
     event |-> [f \in DOMAIN e \ {"to"} |-> e[f]]]

\* callback({ success: true, room, playerId }) / callback(result)
ReplyPacket(op, room, playerId) ==
    [kind |-> "reply", op |-> op, success |-> TRUE, room |-> room,
     playerId |-> playerId]

\* a server that writes the newest events in front of what is on the wire
PostNewestFirst(w, events, n) ==
    [d \in Sockets |->
        LET Mine(e) == e.type # "rooms-updated" /\ d \in e.to
            mine == SelectSeq(events, Mine)
        IN  [i \in 1..Len(mine) |-> EventPacket(mine[i], n)] \o w[d]]

\* the wires after the room-scoped events of `events` are written, in their
\* order, to the sockets they are addressed to
Post(w, events, n) ==
    [d \in Sockets |->
        LET Mine(e) == e.type # "rooms-updated" /\ d \in e.to
            mine == SelectSeq(events, Mine)
        IN  w[d] \o [i \in 1..Len(mine) |-> EventPacket(mine[i], n)]]

\* a handler has run for a request of connection c: the callback's packet is
\* written first and the events after it.  A request that is carried out (it
\* emits, or changes the store or the registry) counts as one change.
Sent(c, replies, events) ==
    LET n == IF events # << >> \/ <<rooms', players'>> # <<rooms, players>>
             THEN commits + 1 ELSE commits
    IN  /\ n <= MaxCommits
        /\ commits' = n
        /\ wire' = Post([wire EXCEPT ![c] = @ \o replies], events, n)
        /\ UNCHANGED <<seen, burst, linkVars>>

\* createRoom of the hook, up to `await`, and the create-room handler
HookCreateRoom(c, roomId, config) ==
    LET r == createRoom(rooms, players,
                        [hostName |-> NameOf(c),
                         maxPlayers |-> config.maxPlayers,
                         password |-> config.password, socketId |-> c],
                        roomId, nextPlayerId, now)
    IN  /\ CreateRoomHandler(c, roomId, config)
        /\ Sent(c, <<ReplyPacket("create-room", r.room, nextPlayerId)>>,
                CreateRoomEvents(c, roomId, config))
        /\ UNCHANGED hook

\* joinRoom of the hook, up to `await`, and the join-room handler
HookJoinRoom(c, roomId, password) ==
    LET result == JoinResult(c, roomId, password)
        replies == IF result.success
                   THEN <<ReplyPacket("join-room", result.rooms[roomId],
                                      nextPlayerId)>>
                   ELSE << >>
    IN  /\ JoinRoomHandler(c, roomId, password)
        /\ Sent(c, replies, JoinRoomEvents(c, roomId, password))
        /\ UNCHANGED hook

\* leaveRoom of the hook: the request is sent and the state is cleared at
\* once; and the leave-room handler
HookLeaveRoom(c) ==
    /\ LeaveRoomHandler(c)
    /\ Sent(c, << >>, LeaveRoomEvents(c))
    /\ hook' = [hook EXCEPT ![c] = NoHook]

\* kickPlayer of the hook: if (state.isHost && state.currentRoom); and the
\* kick-player handler
HookKickPlayer(c, targetPlayerId) ==
    /\ hook[c].isHost
    /\ hook[c].currentRoom # NoRoom
    /\ KickPlayerHandler(c, hook[c].currentRoom.id, targetPlayerId)
    /\ Sent(c, << >>,
            KickPlayerEvents(c, hook[c].currentRoom.id, targetPlayerId))
    /\ UNCHANGED hook

\* startGame of the hook: if (state.isHost && state.currentRoom); and the
\* start-game handler
HookStartGame(c) ==
    /\ hook[c].isHost
    /\ hook[c].currentRoom # NoRoom
    /\ StartGameHandler(c, hook[c].currentRoom.id)
    /\ Sent(c, << >>, StartGameEvents(c, hook[c].currentRoom.id))
    /\ UNCHANGED hook

\* toggleReady of the hook: if (state.currentRoom && state.currentPlayerId);
\* and the toggle-ready handler
HookToggleReady(c) ==
    /\ hook[c].currentRoom # NoRoom
    /\ hook[c].currentPlayerId # NoId
    /\ ToggleReadyHandler(c, hook[c].currentRoom.id)
    /\ Sent(c, << >>, ToggleReadyEvents(c, hook[c].currentRoom.id))
    /\ UNCHANGED hook

\* the page of a client is closed: its socket disconnects, and what was on
\* the way to it is lost
ClientGone(c) ==
    /\ DisconnectHandler(c)
    /\ LET n == IF DisconnectEvents(c) # << >>
                   \/ <<rooms', players'>> # <<rooms, players>>
                THEN commits + 1 ELSE commits
       IN  /\ n <= MaxCommits
           /\ commits' = n
           /\ wire' = [Post(wire, DisconnectEvents(c), n) EXCEPT ![c] = << >>]
    /\ hook' = [hook EXCEPT ![c] = NoHook]
    /\ UNCHANGED <<seen, burst, linkVars>>

\* a run of the cleanup while clients are connected
Reap ==
    /\ CleanupHandler
    /\ commits < MaxCommits
    /\ commits' = commits + 1
    /\ wire' = Post(wire, CleanupEvents, commits + 1)
    /\ UNCHANGED <<hook, seen, burst, linkVars>>

\* the listener of 'current-room' in the hook
onCurrentRoom(prev, event) ==
    IF "room" \in DOMAIN event
       /\ event.type \in {"ROOM_UPDATED", "PLAYER_JOINED", "PLAYER_LEFT",
                          "PLAYER_KICKED", "GAME_STARTED"}
    THEN [prev EXCEPT !.currentRoom = event.room]
    ELSE IF "room" \in DOMAIN event /\ event.type = "HOST_CHANGED"
    THEN [prev EXCEPT !.currentRoom = event.room,
                      !.isHost = (prev.currentPlayerId = event.newHostId)]
    ELSE IF event.type = "KICKED_FROM_ROOM"
    THEN NoHook
    ELSE IF event.type = "ROOM_DELETED" /\ prev.currentRoom.id = event.roomId
    THEN NoHook
    ELSE prev

\* createRoom and joinRoom of the hook after `await`
onReply(prev, result) ==
    IF result.success /\ result.room # NoRoom /\ result.playerId # NoId
    THEN [currentRoom |-> result.room,
          currentPlayerId |-> result.playerId,
          isHost |-> (result.op = "create-room")]
    ELSE prev

\* the next packet on the socket of connection c arrives
Receive(c) ==
    /\ c \in connected
    /\ wire[c] # << >>
    /\ LET packet == Head(wire[c]) IN
       /\ hook' = [hook EXCEPT
                     ![c] = IF packet.kind = "reply"
                            THEN onReply(@, packet)
                            ELSE onCurrentRoom(@, packet.event)]
       /\ seen' = [seen EXCEPT
                     ![c] = IF packet.kind = "event" THEN packet.commit ELSE @]
    /\ wire' = [wire EXCEPT ![c] = Tail(@)]
    /\ UNCHANGED <<serverVars, burst, commits, linkVars>>

\* the form the users of the hook fill in: rooms without a password
HookConfig == [maxPlayers |-> 3, password |-> NoPassword]

NextClient ==
    \/ Connect
    \/ \E c \in Sockets, r \in RoomIds : HookCreateRoom(c, r, HookConfig)
    \/ \E c \in Sockets, r \in RoomIds : HookJoinRoom(c, r, NoPassword)
    \/ \E c \in Sockets : HookLeaveRoom(c)
    \/ \E c \in Sockets, p \in PlayerIds : HookKickPlayer(c, p)
    \/ \E c \in Sockets : HookStartGame(c)
    \/ \E c \in Sockets : HookToggleReady(c)
    \/ \E c \in Sockets : Receive(c)
    \/ \E c \in Sockets : ClientGone(c)
    \/ Reap
    \/ Tick

SpecClient == Init /\ [][NextClient]_vars

(***************************************************************************)
(* The SocketService of one client and its reconnection                    *)
(* (src/src/services/SocketService.ts, 12-91 and 211-225).  The socket of   *)
(* socket.io-client is the environment: service.socket is "connecting"     *)
(* while the library is opening the connection, "connected" once the       *)
(* server has accepted it, "closed" when the library has given it up or    *)
(* socket.disconnect() was called, and "null" after disconnect() of the     *)
(* service has dropped it.  The library emits 'connect' and 'connect_error' *)
(* only while it is opening, and 'disconnect' only on a connected socket;   *)
(* when they come is not constrained.  A callback of setTimeout runs after  *)
(* its delay, but nothing bounds the time between two events, so any        *)
(* callback that has not run yet may be the next one to run.                *)
(***************************************************************************)
maxReconnectAttempts == 5

\* the reasons socket.io-client gives to 'disconnect' on its own
DisconnectReasons ==
    {"io server disconnect", "transport close", "ping timeout",
     "transport error", "parse error"}

\* the reasons after which the 'disconnect' listener calls handleReconnect
Reconnecting == {"io server disconnect", "transport close", "ping timeout"}

\* after 'io server disconnect' the library leaves the socket closed, after
\* every other reason it starts opening the connection again by itself
AfterDisconnect(reason) ==
    IF reason = "io server disconnect" THEN "closed" ELSE "connecting"

ConnectionStatusChanged(isConnected) ==
    [type |-> "CONNECTION_STATUS_CHANGED", isConnected |-> isConnected]

ConnectionFailed == [type |-> "CONNECTION_FAILED"]

\* Math.min(1000 * Math.pow(2, this.reconnectAttempts), 10000)
reconnectDelay(reconnectAttempts) ==
    LET backoff == 1000 * 2^reconnectAttempts
    IN  IF backoff < 10000 THEN backoff ELSE 10000

\* handleReconnect with `<=` for `<`
handleReconnectOffByOne(svc, pending) ==
    IF svc.reconnectAttempts <= maxReconnectAttempts
    THEN LET attempts == svc.reconnectAttempts + 1 IN
         [service |-> [svc EXCEPT !.reconnectAttempts = attempts],
          timers |-> Append(pending, reconnectDelay(attempts)),
          global |-> << >>]
    ELSE [service |-> [svc EXCEPT
                         !.socket = IF @ = "null" THEN @ ELSE "closed"],
          timers |-> pending,
          global |-> <<ConnectionFailed>>]

\* handleReconnect(): the fields, the callbacks waiting and the events emitted
\* after it has run in a service with the fields svc and the callbacks pending
handleReconnect(svc, pending) ==
    IF svc.reconnectAttempts < maxReconnectAttempts
    THEN LET attempts == svc.reconnectAttempts + 1 IN
         [service |-> [svc EXCEPT !.reconnectAttempts = attempts],
          timers |-> Append(pending, reconnectDelay(attempts)),
          global |-> << >>]
    ELSE [service |-> [svc EXCEPT
                         !.socket = IF @ = "null" THEN @ ELSE "closed"],
          timers |-> pending,
          global |-> <<ConnectionFailed>>]

\* the event loop holds no more than MaxTimers callbacks of the service
Schedulable(svc) ==
    svc.reconnectAttempts < maxReconnectAttempts => Len(timers) < MaxTimers

\* this.socket.on('connect', ...)
OnConnect ==
    /\ service.socket = "connecting"
    /\ service' = [socket |-> "connected", isConnected |-> TRUE,
                   reconnectAttempts |-> 0]
    /\ lastEvent' = [event |-> "connect", reason |-> "",
                global |-> <<ConnectionStatusChanged(TRUE)>>]
    /\ UNCHANGED <<serverVars, burst, clientVars, timers>>

\* this.socket.on('disconnect', (reason) => ...)
OnDisconnect(reason) ==
    /\ service.socket = "connected"
    /\ LET svc == [service EXCEPT !.socket = AfterDisconnect(reason),
                                  !.isConnected = FALSE]
           r == IF reason \in Reconnecting
                THEN handleReconnect(svc, timers)
                ELSE [service |-> svc, timers |-> timers, global |-> << >>]
       IN  /\ reason \in Reconnecting => Schedulable(svc)
           /\ service' = r.service
           /\ timers' = r.timers
           /\ lastEvent' = [event |-> "disconnect", reason |-> reason,
                       global |-> <<ConnectionStatusChanged(FALSE)>>
                                  \o r.global]
    /\ UNCHANGED <<serverVars, burst, clientVars>>

\* this.socket.on('connect_error', ...): the library goes on opening the
\* connection (after a failure of the transport) or gives the socket up
\* (after a refusal of the server)
OnConnectError(givenUp) ==
    /\ service.socket = "connecting"
    /\ LET svc == [service EXCEPT
                     !.socket = IF givenUp THEN "closed" ELSE @,
                     !.isConnected = FALSE]
           r == handleReconnect(svc, timers)
       IN  /\ Schedulable(svc)
           /\ service' = r.service
           /\ timers' = r.timers
           /\ lastEvent' = [event |-> "connect_error", reason |-> "",
                       global |-> <<ConnectionStatusChanged(FALSE)>>
                                  \o r.global]
    /\ UNCHANGED <<serverVars, burst, clientVars>>

\* the sequence seq without its element i
Without(seq, i) == SubSeq(seq, 1, i - 1) \o SubSeq(seq, i + 1, Len(seq))

\* the callback handleReconnect gave to setTimeout runs:
\* if (this.socket && !this.socket.connected) this.socket.connect()
Timeout(i) ==
    /\ i \in 1..Len(timers)
    /\ timers' = Without(timers, i)
    /\ service' = [service EXCEPT
                     !.socket = IF @ \in {"null", "connected"}
                                THEN @ ELSE "connecting"]
    /\ lastEvent' = [event |-> "timeout", reason |-> "", global |-> << >>]
    /\ UNCHANGED <<serverVars, burst, clientVars>>

\* 'beforeunload': disconnect() of the service.  socket.disconnect() on a
\* connected socket runs the 'disconnect' listener with the reason
\* 'io client disconnect' before the socket is dropped.
Unload ==
    /\ service.socket # "null"
    /\ service' = [service EXCEPT !.socket = "null", !.isConnected = FALSE]
    /\ lastEvent' = [event |-> "unload", reason |-> "",
                global |-> IF service.socket = "connected"
                           THEN <<ConnectionStatusChanged(FALSE)>>
                           ELSE << >>]
    /\ UNCHANGED <<serverVars, burst, clientVars, timers>>

NextReconnect ==
    \/ OnConnect
    \/ \E reason \in DisconnectReasons : OnDisconnect(reason)
    \/ \E givenUp \in BOOLEAN : OnConnectError(givenUp)
    \/ \E i \in 1..MaxTimers : Timeout(i)
    \/ Unload

SpecReconnect == Init /\ [][NextReconnect]_vars

(***************************************************************************)
(* The properties.                                                         *)
(***************************************************************************)
\* the players of a room that a connection carries
PlayersOf(room, s) ==
    {i \in 1..Len(room.players) : room.players[i].socketId = s}

\* the players of a room that are marked host
Hosts(room) == {i \in 1..Len(room.players) : room.players[i].isHost}

\* C1: after every step, every room of the store has
\* currentPlayers = len(players)
C1_CountIsLength ==
    \A r \in DOMAIN rooms : rooms[r].currentPlayers = Len(rooms[r].players)

\* C2: every room of the store has players, exactly one of them is marked host,
\* and hostId and hostName are that player's id and name
C2_ExactlyOneHost ==
    \A r \in DOMAIN rooms :
        LET room == rooms[r] IN
        /\ Len(room.players) > 0
        /\ Cardinality(Hosts(room)) = 1
        /\ \A i \in Hosts(room) : /\ room.hostId = room.players[i].id
                                  /\ room.hostName = room.players[i].name

\* the least player id among the players of a list: ids are handed out in
\* call order, so it is the player that joined first
EarliestJoined(seq) ==
    CHOOSE i \in 1..Len(seq) : \A j \in 1..Len(seq) : seq[i].id <= seq[j].id

\* a leave-room or disconnect step of connection s that takes players out of
\* room r, and leaves some behind
Leaves(s, r) ==
    /\ LeaveRoom(s) \/ Disconnect(s)
    /\ Has(players, s) /\ players[s].roomId = r /\ Has(rooms, r)
    /\ Len(rooms[r].players) >= 2
    /\ \E i \in 1..Len(rooms[r].players) : rooms[r].players[i].socketId # s

\* C3, the host leaves: the earliest-joined remaining player becomes the only
\* host, hostId and hostName are its id and name, and the result carries its id
\* as newHostId
HostLeaves(s, r) ==
    ( /\ Leaves(s, r)
      /\ \E i \in PlayersOf(rooms[r], s) : rooms[r].players[i].id = rooms[r].hostId )
    => /\ Has(rooms', r)
       /\ LET after == rooms'[r]
              first == after.players[1]
          IN  /\ EarliestJoined(after.players) = 1
              /\ Hosts(after) = {1}
              /\ after.hostId = first.id
              /\ after.hostName = first.name
              /\ last'.newHostId = first.id

\* C3, a non-host leaves: hostId, hostName and every remaining isHost flag stay
\* as they were and the result carries no newHostId
NonHostLeaves(s, r) ==
    ( /\ Leaves(s, r)
      /\ \A i \in PlayersOf(rooms[r], s) : rooms[r].players[i].id # rooms[r].hostId )
    => /\ Has(rooms', r)
       /\ rooms'[r].hostId = rooms[r].hostId
       /\ rooms'[r].hostName = rooms[r].hostName
       /\ rooms'[r].players = WithoutSocket(rooms[r].players, s)
       /\ last'.newHostId = NoId

\* C3: when the host of a room with at least two players leaves or disconnects,
\* the earliest-joined remaining player becomes the host (isHost, hostId,
\* hostName, newHostId) and no other player is marked host; when a non-host
\* leaves, the host stays as it was and newHostId is absent
C3_HostSuccession ==
    [][\A s \in Sockets, r \in RoomIds : HostLeaves(s, r) /\ NonHostLeaves(s, r)]_vars

\* every join-room for room r is answered RoomNotFound
Unreachable(rms, pls, r) ==
    \A s \in Sockets, pw \in JoinPasswords :
        LET result == joinRoom(rms, pls,
                               [roomId |-> r, playerName |-> NameOf(s),
                                password |-> pw, socketId |-> s], NoId)
        IN  ~result.success /\ result.error = RoomNotFound

\* every player of room r is carried by connection s: when s goes, the last
\* player of the room goes
LastPlayer(s, r) ==
    /\ Has(rooms, r)
    /\ Len(rooms[r].players) >= 1
    /\ \A i \in 1..Len(rooms[r].players) : rooms[r].players[i].socketId = s

\* C4: when the last player of a room leaves it, or disconnects, the room is
\* removed from the store: getActiveRooms() does not return it and every
\* join-room for its id is answered RoomNotFound
C4_LastPlayerGone ==
    [][\A s \in Sockets, r \in RoomIds :
          ( /\ LastPlayer(s, r)
            /\ \/ Disconnect(s)
               \/ LeaveRoom(s) /\ Has(players, s) /\ players[s].roomId = r )
          => /\ ~Has(rooms', r)
             /\ r \notin ActiveRoomIds(rooms')
             /\ Unreachable(rooms', players', r)
      ]_vars

Min(a, b) == IF a <= b THEN a ELSE b

\* the requests of the burst answered with a success
Admitted == {s \in DOMAIN burst.reply : burst.reply[s] = "ok"}

\* C5: of N join-room requests sent with the room's password by distinct
\* connections to a waiting room with k free slots, exactly min(N, k) succeed
\* and the others are answered RoomFull, in whatever order the handlers run; so
\* it is after every prefix of the burst, and the room never holds more players
\* than maxPlayers
C5_NoOverAdmit ==
    burst.room # 0
    => LET answered == DOMAIN burst.reply
           room == rooms[burst.room]
       IN  /\ Cardinality(Admitted) = Min(Cardinality(answered), burst.free)
           /\ \A s \in answered \ Admitted : burst.reply[s] = RoomFull
           /\ Len(room.players) = room.maxPlayers - burst.free
                                      + Cardinality(Admitted)
           /\ Len(room.players) <= room.maxPlayers

\* a burst is over in which more connections asked than slots were free: some
\* were admitted and some were answered RoomFull
C5_Witness ==
    /\ burst.room # 0
    /\ burst.sent = {}
    /\ Cardinality(DOMAIN burst.reply) > burst.free
    /\ Cardinality(Admitted) >= 1
    /\ \E s \in DOMAIN burst.reply : burst.reply[s] = RoomFull

\* C6: no room holds more players than maxPlayers, and a join-room on an
\* existing room is answered RoomFull exactly when currentPlayers = maxPlayers
C6_Capacity ==
    \A r \in DOMAIN rooms :
        /\ Len(rooms[r].players) <= rooms[r].maxPlayers
        /\ \A s \in connected, pw \in JoinPasswords :
               JoinReply(s, r, pw) = RoomFull
                   <=> rooms[r].currentPlayers = rooms[r].maxPlayers

\* the ids of the players of all rooms
IdsInRooms ==
    UNION {{rooms[r].players[i].id : i \in 1..Len(rooms[r].players)} :
              r \in DOMAIN rooms}

\* a step in which the join-room of connection s for room r succeeds (the handler
\* records every committed request in last)
Joins(s, r, pw) ==
    /\ last'.op = "join-room"
    /\ JoinReply(s, r, pw) = "ok"
    /\ JoinRoom(s, r, pw)

\* C7: a successful join-room appends one new player, not host and not ready, at
\* the end of room.players, adds one to currentPlayers, binds the caller to (new
\* playerId, roomId) and changes nothing else: not the players already there nor
\* their order, no other field of the room, no other room, no other binding
C7_JoinFrame ==
    [][\A s \in Sockets, r \in RoomIds, pw \in JoinPasswords :
          Joins(s, r, pw)
          => LET newPlayer == [id |-> nextPlayerId, name |-> NameOf(s),
                               socketId |-> s, isHost |-> FALSE,
                               isReady |-> FALSE]
             IN  /\ nextPlayerId \notin IdsInRooms
                 /\ rooms'[r].players = Append(rooms[r].players, newPlayer)
                 /\ rooms'[r].currentPlayers = rooms[r].currentPlayers + 1
                 /\ [rooms'[r] EXCEPT !.players = rooms[r].players,
                                      !.currentPlayers = rooms[r].currentPlayers]
                        = rooms[r]
                 /\ DOMAIN rooms' = DOMAIN rooms
                 /\ \A q \in DOMAIN rooms \ {r} : rooms'[q] = rooms[q]
                 /\ DOMAIN players' = DOMAIN players \cup {s}
                 /\ players'[s] = [playerId |-> nextPlayerId, roomId |-> r]
                 /\ \A q \in DOMAIN players \ {s} : players'[q] = players[q]
      ]_vars

\* a join-room has just gone through; two rooms exist and one has three players
C7_Witness ==
    /\ last.op = "join-room"
    /\ Cardinality(DOMAIN rooms) = 2
    /\ \E r \in DOMAIN rooms : Len(rooms[r].players) = 3

\* C8: a join-room on a password-protected room succeeds only with the room's
\* password; on a room that exists and is not full, a missing or different
\* password is answered WrongPassword and nothing is added
C8_Password ==
    \A r \in DOMAIN rooms, s \in connected, pw \in JoinPasswords :
        LET room == rooms[r]
            result == JoinResult(s, r, pw)
        IN  /\ (room.hasPassword /\ result.success) => pw = room.password
            /\ ( /\ room.hasPassword
                 /\ room.currentPlayers < room.maxPlayers
                 /\ pw # room.password )
               => /\ ~result.success
                  /\ result.error = WrongPassword
                  /\ result.rooms = rooms
                  /\ result.players = players

\* a player has just joined a password-protected room, which still has a free
\* slot for the next request
C8_Witness ==
    /\ last.op = "join-room"
    /\ connected # {}
    /\ \E r \in DOMAIN rooms : /\ rooms[r].hasPassword
                               /\ Len(rooms[r].players) >= 2
                               /\ rooms[r].currentPlayers < rooms[r].maxPlayers

\* C9: while a room has gameInProgress, no join-room on it succeeds and its
\* players list does not grow
C9_NoJoinInProgress ==
    [][\A r \in DOMAIN rooms :
          rooms[r].gameInProgress
          => /\ \A s \in connected, pw \in JoinPasswords :
                    JoinReply(s, r, pw) # "ok"
             /\ \A s \in Sockets, pw \in JoinPasswords :
                    JoinRoom(s, r, pw) => UNCHANGED <<rooms, players>>
             /\ Has(rooms', r)
                    => Len(rooms'[r].players) <= Len(rooms[r].players)
      ]_vars

\* a game is in progress in a room that has a free slot and no password, and a
\* connection is there to ask for it
C9_Witness ==
    /\ connected # {}
    /\ \E r \in DOMAIN rooms : /\ rooms[r].gameInProgress
                               /\ ~rooms[r].hasPassword
                               /\ rooms[r].currentPlayers < rooms[r].maxPlayers

\* C10: while a room has gameInProgress, no toggle-ready changes an isReady flag
\* of it and no kick-player removes a player of it; a leave-room of a member is
\* carried out
C10_InProgressFrozen ==
    [][\A r \in DOMAIN rooms :
          rooms[r].gameInProgress
          => /\ \A s \in Sockets : ToggleReady(s, r) => UNCHANGED rooms
             /\ \A s \in Sockets, p \in PlayerIds :
                    KickPlayer(s, r, p) => UNCHANGED <<rooms, players>>
             /\ \A s \in Sockets :
                    (LeaveRoom(s) /\ Has(players, s) /\ players[s].roomId = r)
                    => /\ ~Has(players', s)
                       /\ Has(rooms', r) => PlayersOf(rooms'[r], s) = {}
      ]_vars

\* the registry binds connection s to room roomId
BoundTo(s, roomId) == Has(players, s) /\ players[s].roomId = roomId

\* connection s is bound to roomId as the room's host, the room has at least two
\* players and every non-host player is ready
MayStart(s, roomId) ==
    /\ BoundTo(s, roomId)
    /\ Has(rooms, roomId)
    /\ rooms[roomId].hostId = players[s].playerId
    /\ Len(rooms[roomId].players) >= 2
    /\ \A i \in 1..Len(rooms[roomId].players) :
           rooms[roomId].players[i].isHost \/ rooms[roomId].players[i].isReady

\* a start-game step that is carried out sets status and gameInProgress and
\* touches no other room and no binding; one that is rejected leaves status,
\* gameInProgress and gameState as they were
StartGameEffect(s, roomId) ==
    (last'.op = "start-game" /\ StartGame(s, roomId))
    => /\ MayStart(s, roomId)
       /\ rooms'[roomId].status = "playing"
       /\ rooms'[roomId].gameInProgress
       /\ [rooms' EXCEPT ![roomId].status = rooms[roomId].status,
                         ![roomId].gameInProgress = rooms[roomId].gameInProgress,
                         ![roomId].gameState = rooms[roomId].gameState] = rooms
       /\ players' = players

C12_OneWay ==
    [][\A r \in DOMAIN rooms :
          ( /\ rooms[r].status = "playing"
            /\ rooms[r].gameInProgress
            /\ Has(rooms', r) )
          => /\ rooms'[r].status # "waiting"
             /\ rooms'[r].gameInProgress
             /\ r \notin ActiveRoomIds(rooms')
      ]_vars

\* C13: getActiveRooms() returns exactly the rooms of the Room Store with status
\* 'waiting' and gameInProgress false, one view for each, and no view has the
\* password field (it has hasPassword) nor the connection id of a player
C13_ActiveRooms ==
    LET views == getActiveRooms(rooms)
        listed == {r \in DOMAIN rooms :
                     rooms[r].status = "waiting" /\ ~rooms[r].gameInProgress}
    IN  /\ {v.id : v \in views} = listed
        /\ Cardinality(views) = Cardinality(listed)
        /\ \A v \in views :
               /\ "password" \notin DOMAIN v
               /\ "hasPassword" \in DOMAIN v
               /\ v.hasPassword = rooms[v.id].hasPassword
               /\ v.hostId = rooms[v.id].hostId
               /\ Len(v.players) = Len(rooms[v.id].players)
               /\ \A i \in 1..Len(v.players) :
                      /\ "socketId" \notin DOMAIN v.players[i]
                      /\ v.players[i].id = rooms[v.id].players[i].id

\* the store holds a playing room and a waiting room that has a password:
\* getActiveRooms() returns the second only
C13_Witness ==
    /\ Cardinality(DOMAIN rooms) = 2
    /\ Cardinality(getActiveRooms(rooms)) = 1
    /\ \E r \in DOMAIN rooms : rooms[r].gameInProgress
    /\ \E v \in getActiveRooms(rooms) : v.hasPassword /\ Len(v.players) >= 1

\* a serialized room carries a password (a field that is undefined is left out
\* when the event is serialized)
HasPasswordField(view) ==
    "password" \in DOMAIN view /\ view.password # NoPassword

\* C14: no push event carries a room's password: the room snapshot of
\* ROOM_UPDATED, PLAYER_LEFT, PLAYER_KICKED and GAME_STARTED and every room
\* view of rooms-updated come without the password field
C14_NoPasswordPushed ==
    \A e \in Emitted :
        /\ "room" \in DOMAIN e => ~HasPasswordField(e.room)
        /\ "rooms" \in DOMAIN e => \A v \in e.rooms : ~HasPasswordField(v)

\* a step in which the kick-player of connection s is carried out
Kicks(s, roomId, targetPlayerId) ==
    /\ last'.op = "kick-player"
    /\ KickPlayerReply(s, roomId, targetPlayerId) = "ok"
    /\ KickPlayer(s, roomId, targetPlayerId)

\* the ids of the players of a room
IdsOf(room) == {room.players[i].id : i \in 1..Len(room.players)}

\* C15: a kick-player whose target is the room's host is rejected whoever
\* sends it, and no kick-player that is carried out removes the player hostId
\* names or a player marked host
C15_HostNeverKicked ==
    [][\A r \in DOMAIN rooms :
          /\ \A s \in connected :
                 KickPlayerReply(s, r, rooms[r].hostId) # "ok"
          /\ \A s \in Sockets, p \in PlayerIds :
                 Kicks(s, r, p)
                 => /\ p # rooms[r].hostId
                    /\ \A i \in Hosts(rooms[r]) : p # rooms[r].players[i].id
                    /\ IdsOf(rooms'[r]) = IdsOf(rooms[r]) \ {p}
                    /\ rooms'[r].hostId = rooms[r].hostId
      ]_vars

\* the host of a room of two players is bound to it: its kick-player aimed at
\* the host itself gets as far as the check of the target, and is rejected there
C15_Witness ==
    \E s \in connected, r \in DOMAIN rooms :
        /\ Len(rooms[r].players) >= 2
        /\ rooms[r].hostId \in IdsOf(rooms[r])
        /\ KickPlayerReply(s, r, rooms[r].hostId) = CannotKick

\* C16: a kick-player is carried out only if the requester is bound to roomId,
\* its player is the room's host and the target is a non-host player of the
\* room; then exactly the target is removed from players, currentPlayers is one
\* less, nothing else of the room changes and the target's connection is not
\* bound any more
C16_KickEffect ==
    [][\A s \in Sockets, r \in RoomIds, p \in PlayerIds :
          Kicks(s, r, p)
          => LET room == rooms[r]
                 target == FindById(room.players, p)
             IN  /\ BoundTo(s, r)
                 /\ room.hostId = players[s].playerId
                 /\ \E i \in Hosts(room) : room.players[i].id = players[s].playerId
                 /\ Cardinality(target) = 1
                 /\ \A i \in target :
                        /\ ~room.players[i].isHost
                        /\ ~Has(players', room.players[i].socketId)
                 /\ rooms'[r].players = WithoutPlayer(room.players, p)
                 /\ Len(rooms'[r].players) = Len(room.players) - 1
                 /\ rooms'[r].currentPlayers = room.currentPlayers - 1
                 /\ [rooms' EXCEPT ![r].players = room.players,
                                   ![r].currentPlayers = room.currentPlayers]
                        = rooms
      ]_vars

\* a player has just been kicked out of a room, and its connection is still
\* connected
C16_Witness ==
    /\ last.op = "kick-player"
    /\ \E s \in connected : ~Has(players, s)
    /\ \E r \in DOMAIN rooms : rooms[r].currentPlayers >= 1

\* a step in which the toggle-ready of connection s is carried out
Toggles(s, roomId) ==
    /\ last'.op = "toggle-ready"
    /\ ToggleReadyReply(s, roomId) = "ok"
    /\ ToggleReady(s, roomId)

\* the player of connection s is the host of the room
IsHostOf(s, roomId) ==
    /\ Has(rooms, roomId)
    /\ rooms[roomId].hostId = players[s].playerId

\* C17: toggle-ready(roomId) from connection c is answered Mismatch if c is not
\* bound to roomId and HostCannotToggle if c's player is the host; otherwise it
\* is carried out: it flips the caller's isReady, returns the new value and
\* changes no other player and no other field of a room
C17_ToggleReady ==
    [][\A s \in connected, r \in RoomIds :
          LET reply == ToggleReadyReply(s, r) IN
          /\ ~BoundTo(s, r) => reply = Mismatch
          /\ (BoundTo(s, r) /\ IsHostOf(s, r)) => reply = HostCannotToggle
          /\ (BoundTo(s, r) /\ ~IsHostOf(s, r)) => reply = "ok"
          /\ Toggles(s, r)
             => \E i \in FindById(rooms[r].players, players[s].playerId) :
                    /\ rooms'[r].players[i].isReady = ~rooms[r].players[i].isReady
                    /\ toggled(rooms[r], players[s].playerId).players[i].isReady
                           = rooms'[r].players[i].isReady
                    /\ [rooms' EXCEPT ![r].players[i].isReady = ~@] = rooms
                    /\ players' = players
      ]_vars

\* the events sent on the channel of a room
RoomScoped(events) == {e \in Range(events) : e.type # "rooms-updated"}

\* C18: a leave-room or a disconnect of a connection that the registry does not
\* bind is a no-op: the Room Store and the Connection Registry stay as they are
\* and no room-scoped event is emitted
C18_UnboundNoOp ==
    [][\A s \in connected :
          ~Has(players, s)
          => /\ RoomScoped(LeaveRoomEvents(s)) = {}
             /\ RoomScoped(DisconnectEvents(s)) = {}
             /\ (LeaveRoom(s) \/ Disconnect(s)) => UNCHANGED <<rooms, players>>
      ]_vars

\* an unbound connection has just disconnected while the store holds a room
C18_Witness ==
    /\ last.op = "disconnect"
    /\ last.res = "unbound"
    /\ DOMAIN rooms # {}
    /\ DOMAIN players # {}

\* the Room Store and the Connection Registry the leave-room handler leaves
\* behind when connection s sends leave-room in this state
LeaveRoomStores(s) ==
    IF ~Has(players, s) THEN <<rooms, players>>
    ELSE IF ~Has(rooms, players[s].roomId)
    THEN <<rooms, MapDelete(players, s)>>
    ELSE LET result == leaveRoom(rooms, players, s)
         IN  <<result.rooms, result.players>>

\* C19: from every reachable state and for every connection, the disconnect
\* handler leaves the same Room Store and the same Connection Registry as the
\* leave-room handler does, whatever the status of the room
C19_DisconnectIsLeave ==
    [][\A s \in Sockets :
          /\ LeaveRoom(s) => <<rooms', players'>> = LeaveRoomStores(s)
          /\ Disconnect(s) => <<rooms', players'>> = LeaveRoomStores(s)
      ]_vars

\* the rooms a run of the cleanup has to delete now
Reapable ==
    {r \in DOMAIN rooms : /\ rooms[r].status = "waiting"
                          /\ rooms[r].gameInProgress = FALSE
                          /\ now - rooms[r].createdAt > maxInactiveTime}

\* the connections of the players of a room
Members(r) ==
    {s \in connected :
        \E i \in 1..Len(rooms[r].players) : rooms[r].players[i].socketId = s}

\* ROOM_DELETED of room r is emitted to its members while every list of
\* active rooms sent so far still shows r, and the next one does not
DeletedBeforeRemoval(events, r) ==
    \E i \in 1..Len(events) :
        /\ events[i].type = "ROOM_DELETED"
        /\ events[i].roomId = r
        /\ Members(r) \subseteq events[i].to
        /\ \A j \in 1..(i - 1) :
              events[j].type = "rooms-updated"
              => \E v \in events[j].rooms : v.id = r
        /\ i < Len(events)
        /\ events[i + 1].type = "rooms-updated"
        /\ \A v \in events[i + 1].rooms : v.id # r

\* a run of the cleanup deletes the reapable rooms and no other room, and
\* tells the members of each
ReapsExactly ==
    Cleanup => /\ DOMAIN rooms' = DOMAIN rooms \ Reapable
               /\ \A r \in DOMAIN rooms' : rooms'[r] = rooms[r]
               /\ \A r \in Reapable : DeletedBeforeRemoval(CleanupEvents, r)

\* C20: a run of the cleanup deletes exactly the rooms that are waiting, not
\* in progress and older than the idle threshold, ROOM_DELETED reaches the
\* members of each before it leaves the store, afterwards no binding of the
\* registry refers to a deleted room, and every other room stays as it was
C20_Reaper ==
    [][/\ ReapsExactly
       /\ Cleanup => \A s \in DOMAIN players' : players'[s].roomId \notin Reapable
      ]_vars

\* the connections of `conn` that the registry `pl` binds to room r
BoundIn(pl, conn, r) == {c \in conn : Has(pl, c) /\ pl[c].roomId = r}

\* some room-scoped event of `events` carries `room` and reaches all of `to`
Snapshot(events, room, to) ==
    \E e \in RoomScoped(events) :
        /\ "room" \in DOMAIN e
        /\ e.room = room
        /\ to \subseteq e.to

\* join, leave, disconnect, toggle-ready and start-game send the room they
\* leave behind to every connection bound to it afterwards
SnapshotButKick ==
    \A s \in connected :
        /\ \A r \in RoomIds, pw \in JoinPasswords :
              LET result == JoinResult(s, r, pw) IN
              result.success
              => Snapshot(JoinRoomEvents(s, r, pw), result.rooms[r],
                          BoundIn(result.players, connected, r))
        /\ (Has(players, s) /\ Has(rooms, players[s].roomId))
           => LET r == players[s].roomId
                  result == leaveRoom(rooms, players, s)
              IN  result.kind = "room"
                  => /\ Snapshot(LeaveRoomEvents(s), result.rooms[r],
                                 BoundIn(result.players, connected, r))
                     /\ Snapshot(DisconnectEvents(s), result.rooms[r],
                                 BoundIn(result.players, connected \ {s}, r))
        /\ \A r \in RoomIds :
              /\ ToggleReadyReply(s, r) = "ok"
                 => Snapshot(ToggleReadyEvents(s, r),
                             toggled(rooms[r], players[s].playerId),
                             BoundIn(players, connected, r))
              /\ StartGameReply(s, r) = "ok"
                 => Snapshot(StartGameEvents(s, r), started(rooms[r]),
                             BoundIn(players, connected, r))

\* kick-player sends the room it leaves behind to every connection bound to it
\* afterwards, the host who asked included
SnapshotOfKick ==
    \A s \in connected, r \in RoomIds, p \in PlayerIds :
        KickPlayerReply(s, r, p) = "ok"
        => LET i == CHOOSE i \in 1..Len(rooms[r].players) :
                       rooms[r].players[i].id = p
               after == MapDelete(players, rooms[r].players[i].socketId)
           IN  Snapshot(KickPlayerEvents(s, r, p), kicked(rooms[r], p),
                        BoundIn(after, connected, r))

\* C21: whenever a join, leave, disconnect, kick, toggle-ready or start-game
\* commits and the room still exists, a room-scoped event with the updated
\* room reaches every connection bound to the room afterwards, the requester
\* included
C21_SnapshotToBound == SnapshotButKick /\ SnapshotOfKick

\* the events of `events` that reach connection c
ReachedBy(events, c) == {e \in RoomScoped(events) : c \in e.to}

\* a kick that is carried out: KICKED_FROM_ROOM goes to the connection of the
\* kicked player and to no other, that connection is out of the broadcast
\* group afterwards and PLAYER_KICKED does not reach it
KickTellsTargetOnly ==
    \A s \in Sockets, r \in RoomIds, p \in PlayerIds :
        Kicks(s, r, p)
        => LET i == CHOOSE i \in 1..Len(rooms[r].players) :
                       rooms[r].players[i].id = p
               t == rooms[r].players[i].socketId
               events == Range(KickPlayerEvents(s, r, p))
           IN  /\ \A e \in events : e.type = "KICKED_FROM_ROOM" => e.to = {t}
               /\ \A e \in events : e.type = "PLAYER_KICKED" => t \notin e.to
               /\ t \in connected
                  => /\ \E e \in events : e.type = "KICKED_FROM_ROOM"
                     /\ r \notin joined'[t]

\* a connection outside the broadcast group of room r gets into it only by
\* its own join-room or create-room for r
GroupEntry ==
    \A c \in connected, r \in RoomIds :
        (r \notin joined[c] /\ r \in joined'[c])
        => /\ last'.op \in {"join-room", "create-room"}
           /\ Has(players', c)
           /\ players'[c].roomId = r
           /\ players'[c].playerId = nextPlayerId

\* no room-scoped event about room r reaches a connection outside the
\* broadcast group of r, but the events of its own join-room for r
OutsideGroup ==
    \A c \in connected, r \in RoomIds :
        r \notin joined[c]
        => /\ \A e \in Range(CleanupEvents) :
                 (e.type = "ROOM_DELETED" /\ e.roomId = r) => c \notin e.to
           /\ \A s \in connected :
                 /\ (Has(players, s) /\ players[s].roomId = r)
                    => /\ ReachedBy(LeaveRoomEvents(s), c) = {}
                       /\ ReachedBy(DisconnectEvents(s), c) = {}
                 /\ ReachedBy(ToggleReadyEvents(s, r), c) = {}
                 /\ ReachedBy(StartGameEvents(s, r), c) = {}
                 /\ \A p \in PlayerIds :
                       ReachedBy(KickPlayerEvents(s, r, p), c) = {}
                 /\ s # c => \A pw \in JoinPasswords :
                                ReachedBy(JoinRoomEvents(s, r, pw), c) = {}

\* C22: a kick sends KICKED_FROM_ROOM to the connection of the kicked player
\* only and takes that connection out of the broadcast group of the room, so
\* that neither the PLAYER_KICKED of this kick nor any later room-scoped event
\* of the room reaches it until it joins the room again
C22_KickedIsOut ==
    [][KickTellsTargetOnly /\ GroupEntry /\ OutsideGroup]_vars

\* the events on the way to connection c, in the order it will take them in
EventsOnWire(c) ==
    LET IsEvent(packet) == packet.kind = "event"
    IN  SelectSeq(wire[c], IsEvent)

\* every connection takes the events in in the order of the changes they were
\* emitted for: what is on its wire comes from changes that are not older than
\* the one it saw last, the older change first
InCommitOrder ==
    \A c \in Sockets :
        LET events == EventsOnWire(c) IN
        /\ \A i \in 1..Len(events) : seen[c] <= events[i].commit
        /\ \A i, j \in 1..Len(events) :
              i < j => events[i].commit <= events[j].commit

\* the packets a step writes carry the room as the step leaves it in the store
SnapshotAtCommit ==
    commits' = commits + 1
    => \A c \in Sockets : \A i \in 1..Len(wire'[c]) :
          LET packet == wire'[c][i] IN
          /\ (packet.kind = "event" /\ packet.commit = commits'
              /\ "room" \in DOMAIN packet.event)
             => /\ Has(rooms', packet.event.room.id)
                /\ packet.event.room = rooms'[packet.event.room.id]
          /\ (packet.kind = "reply" /\ i > Len(wire[c]))
             => /\ Has(rooms', packet.room.id)
                /\ packet.room = rooms'[packet.room.id]

\* C23: the room-scoped events of a room reach every connection in the order
\* in which the changes were made to the store, and each carries the room as
\* its own change left it
C23_CommitOrder == []InCommitOrder /\ [][SnapshotAtCommit]_vars

\* two events of one room, emitted for two changes, are on their way to the
\* same connection
C23_Witness ==
    \E c \in connected :
        LET events == EventsOnWire(c) IN
        \E i, j \in 1..Len(events) :
            /\ events[i].commit < events[j].commit
            /\ "room" \in DOMAIN events[i].event
            /\ "room" \in DOMAIN events[j].event
            /\ events[i].event.room.id = events[j].event.room.id
            /\ events[i].event.room # events[j].event.room

\* a create-room request of connection s that gets room id r
Creates(s, r, config) ==
    /\ last'.op = "create-room"
    /\ CreateRoom(s, r, config)

\* C24: create-room gives the new room an id that no room of the store has:
\* no room is overwritten or removed, and the store has one room more
C24_FreshRoomId ==
    [][\A s \in Sockets, r \in RoomIds, config \in RoomConfigs :
          Creates(s, r, config)
          => /\ ~Has(rooms, r)
             /\ \A x \in DOMAIN rooms : Has(rooms', x) /\ rooms'[x] = rooms[x]
             /\ Cardinality(DOMAIN rooms') = Cardinality(DOMAIN rooms) + 1
      ]_vars

\* the players, over all rooms, that carry connection id s
CarriedBy(s) ==
    {<<r, i>> \in (DOMAIN rooms) \X (1..MaxPlayerIds) :
        i <= Len(rooms[r].players) /\ rooms[r].players[i].socketId = s}

\* a connection id is on one player at most, and the players of the rooms are
\* the bindings of the registry
OneBinding ==
    /\ \A s \in Sockets : Cardinality(CarriedBy(s)) <= 1
    /\ \A r \in DOMAIN rooms : \A i \in 1..Len(rooms[r].players) :
          LET p == rooms[r].players[i] IN
          /\ Has(players, p.socketId)
          /\ players[p.socketId] = [playerId |-> p.id, roomId |-> r]
    /\ \A s \in DOMAIN players :
          /\ Has(rooms, players[s].roomId)
          /\ \E i \in 1..Len(rooms[players[s].roomId].players) :
                LET p == rooms[players[s].roomId].players[i] IN
                p.id = players[s].playerId /\ p.socketId = s

\* a binding appears with a create-room or join-room that is carried out, and
\* goes with a leave-room, kick-player, disconnect or cleanup
BindingLifecycle ==
    \A s \in Sockets :
        /\ (~Has(players, s) /\ Has(players', s))
           => last'.op \in {"create-room", "join-room"}
        /\ (Has(players, s) /\ ~Has(players', s))
           => last'.op \in {"leave-room", "kick-player", "disconnect", "cleanup"}

\* C25: a connection has at most one (playerId, roomId) pair at a time: at
\* most one player over all rooms carries its id, a player is in a room
\* exactly when the registry binds its connection to it and that room, and
\* bindings come and go with create/join and leave/kick/disconnect/cleanup only
C25_OneBinding == []OneBinding /\ [][BindingLifecycle]_vars

\* the error strings of the rejections
Rejections ==
    {RoomNotFound, RoomFull, WrongPassword, GameAlreadyInProgress, Mismatch,
     HostCannotToggle, NotAuthorized, NotEnoughPlayers, NotAllReady,
     KickMismatch, KickNotAuthorized, CannotKick}

\* the store, the registry and the broadcast groups stay as they are
Untouched == UNCHANGED <<rooms, players, joined>>

\* a request that is rejected is answered with one of the error strings and
\* emits nothing, neither to a room nor to everyone
RejectedSilent ==
    \A s \in connected, r \in RoomIds :
        /\ \A pw \in JoinPasswords :
              JoinReply(s, r, pw) # "ok"
              => /\ JoinReply(s, r, pw) \in Rejections
                 /\ JoinRoomEvents(s, r, pw) = << >>
        /\ \A p \in PlayerIds :
              KickPlayerReply(s, r, p) # "ok"
              => /\ KickPlayerReply(s, r, p) \in Rejections
                 /\ KickPlayerEvents(s, r, p) = << >>
        /\ ToggleReadyReply(s, r) # "ok"
           => /\ ToggleReadyReply(s, r) \in Rejections
              /\ ToggleReadyEvents(s, r) = << >>
        /\ StartGameReply(s, r) # "ok"
           => /\ StartGameReply(s, r) \in Rejections
              /\ StartGameEvents(s, r) = << >>

\* the handler of a request that is rejected changes nothing: a step that
\* touches the store, the registry or the groups is the step of no rejected
\* request (a step that records a request as carried out is not looked at: a
\* rejection records nothing)
RejectedUntouched ==
    \/ Untouched
    \/ last' # last
    \/ \A s \in connected, r \in RoomIds :
          /\ \A pw \in JoinPasswords :
                ~(JoinReply(s, r, pw) # "ok" /\ JoinRoom(s, r, pw))
          /\ \A p \in PlayerIds :
                ~(KickPlayerReply(s, r, p) # "ok" /\ KickPlayer(s, r, p))
          /\ ~(ToggleReadyReply(s, r) # "ok" /\ ToggleReady(s, r))
          /\ ~(StartGameReply(s, r) # "ok" /\ StartGame(s, r))

\* C26: a join-room, kick-player, toggle-ready or start-game that is rejected,
\* for whatever reason, is answered with a failure, leaves the Room Store and
\* the Connection Registry exactly as they were and emits nothing, neither to
\* a room nor to everyone
C26_RejectedNoEffect == []RejectedSilent /\ [][RejectedUntouched]_vars

\* a room of two players, one not ready, that is full and has a password: the
\* host's start-game, toggle-ready and kick of itself, and a join-room with a
\* bad password or without one, are all rejected, each for its own reason
C26_Witness ==
    \E s \in connected, r \in DOMAIN rooms :
        /\ StartGameReply(s, r) = NotAllReady
        /\ ToggleReadyReply(s, r) = HostCannotToggle
        /\ KickPlayerReply(s, r, players[s].playerId) = CannotKick
        /\ \E c \in connected : KickPlayerReply(c, r, 1) = KickNotAuthorized
        /\ \E c \in connected, x \in RoomIds : JoinReply(c, x, "bad") = RoomFull
        /\ \E c \in connected, x \in RoomIds :
              JoinReply(c, x, "bad") = WrongPassword

\* connection c is a player of the room its hook shows, nothing is on its way
\* to it, and the hook shows the room as the store has it
Settled(c) ==
    /\ c \in connected
    /\ wire[c] = << >>
    /\ hook[c].currentRoom # NoRoom
    /\ Has(rooms, hook[c].currentRoom.id)
    /\ hook[c].currentRoom = rooms[hook[c].currentRoom.id]
    /\ Has(players, c)
    /\ players[c] = [playerId |-> hook[c].currentPlayerId,
                     roomId |-> hook[c].currentRoom.id]

\* C27: once a client has taken in everything that was sent to it, the host
\* status it shows is the one its room gives it, isHost ==
\* (currentRoom.hostId == currentPlayerId); so the client of a player promoted
\* by a host succession shows isHost, and its kickPlayer and startGame are
\* sent
C27_HostStatus ==
    \A c \in Sockets :
        Settled(c)
        => hook[c].isHost = (hook[c].currentRoom.hostId = hook[c].currentPlayerId)

\* the hook of a client shows no room and no host status, as leaveRoom()
\* leaves it
ShowsNoRoom(h) == h.currentRoom = NoRoom /\ ~h.isHost

\* the step is the hook of connection c taking in the callback of its own
\* createRoom or joinRoom that was carried out
TakesInReply(c) ==
    /\ Receive(c)
    /\ Head(wire[c]).kind = "reply"
    /\ Head(wire[c]).success

\* C28: a hook that shows no room, as it does once its leaveRoom() was called,
\* goes on showing no room and no host status until it takes in the callback
\* of its next createRoom or joinRoom that is carried out, whatever events
\* reach it meanwhile
C28_StaysLeft ==
    [][\A c \in Sockets :
          (ShowsNoRoom(hook[c]) /\ ~ShowsNoRoom(hook'[c])) => TakesInReply(c)
      ]_vars

\* room r has a player whose connection is connected
Attended(r) ==
    \E i \in 1..Len(rooms[r].players) : rooms[r].players[i].socketId \in connected

\* C29: every room of the store has a player whose connection is still
\* connected, whatever its status; so the store is empty once every
\* connection that created or joined a room has disconnected
C29_NoOrphanRoom ==
    /\ \A r \in DOMAIN rooms : Attended(r)
    /\ connected = {} => DOMAIN rooms = {}

\* a start-game for a room whose game is in progress is rejected
NoRestart ==
    \A r \in DOMAIN rooms :
        rooms[r].gameInProgress
        => \A s \in connected : StartGameReply(s, r) # "ok"

\* the gameState of a room whose game is in progress stays as it is
GameStateKept ==
    \A r \in DOMAIN rooms :
        (rooms[r].gameInProgress /\ Has(rooms', r))
        => rooms'[r].gameState = rooms[r].gameState

\* C30: a game is started once per room at most: once a start-game was
\* carried out, every later start-game for the room is rejected, and the
\* gameState the first one installed is not replaced or reset
C30_StartedOnce == []NoRestart /\ [][GameStateKept]_vars

\* what the service emitted to its global listeners in the last step
Failed == ConnectionFailed \in Range(lastEvent.global)

\* the step runs handleReconnect: a 'connect_error', or a 'disconnect' for
\* one of the three reasons
Reconnects ==
    \/ lastEvent'.event = "connect_error"
    \/ lastEvent'.event = "disconnect" /\ lastEvent'.reason \in Reconnecting

\* the step is the run of a listener or of a callback of the service
ServiceStep == <<service, timers, lastEvent>>' # <<service, timers, lastEvent>>

AttemptsInRange == service.reconnectAttempts \in 0..maxReconnectAttempts

ConnectResets ==
    lastEvent'.event = "connect" => service'.reconnectAttempts = 0

\* below the limit the step counts one more attempt and leaves one more
\* callback waiting, with the delay of that attempt; at the limit, and in
\* every listener that does not reconnect, nothing is scheduled
SchedulesOne ==
    IF Reconnects /\ service.reconnectAttempts < maxReconnectAttempts
    THEN LET attempt == service.reconnectAttempts + 1 IN
         /\ service'.reconnectAttempts = attempt
         /\ timers' = timers \o <<Min(1000 * 2^attempt, 10000)>>
         /\ ~Failed'
    ELSE \/ timers' = timers
         \/ /\ lastEvent'.event = "timeout"
            /\ Len(timers') = Len(timers) - 1

\* CONNECTION_FAILED comes from a step that reconnects and finds the counter
\* at the limit, and that step closes the socket
FailsAtLimit ==
    Failed' <=> /\ Reconnects
                /\ service.reconnectAttempts = maxReconnectAttempts
                /\ service'.socket = "closed"
                /\ service'.reconnectAttempts = maxReconnectAttempts

\* C31: reconnectAttempts stays within 0..maxReconnectAttempts (5); 'connect'
\* sets it to 0; a 'disconnect' for 'io server disconnect', 'transport close'
\* or 'ping timeout', or a 'connect_error', that finds it below 5 schedules
\* exactly one reconnect, with the delay min(1000 * 2^attempt, 10000) ms where
\* attempt is the number of the attempt it starts (1 to 5); CONNECTION_FAILED
\* is emitted, and the socket disconnected, only by such an event that finds
\* reconnectAttempts equal to 5.
C31_BoundedReconnect ==
    /\ []AttemptsInRange
    /\ [][ServiceStep => ConnectResets /\ SchedulesOne /\ FailsAtLimit]_vars

\* the sixth failure in a row has arrived: the limit was reached and
\* CONNECTION_FAILED emitted
C31_Witness ==
    /\ Failed
    /\ service.reconnectAttempts = maxReconnectAttempts
    /\ lastEvent.event = "connect_error"
    /\ timers # << >>

=============================================================================
